---- MODULE Spec2Model ----
(***************************************************************************)
(* Smiling-classifier training pipeline (face.py, model_utils.py).         *)
(*                                                                         *)
(* Four specifications share one set of variables:                         *)
(*   SpecLoad   load_data (face.py), one step per statement group          *)
(*   SpecTrain  train_model (model_utils.py) and get_trained_model         *)
(*              (face.py), with eval_model called from the loop            *)
(*   SpecEval   eval_model alone, on batches fixed in the initial state    *)
(*   SpecMain   main (face.py), one step per pipeline stage / epoch        *)
(*                                                                         *)
(* Real numbers (learning rate, averages, accuracies) are kept as exact    *)
(* fractions <<numerator, denominator>>; floating-point rounding is not    *)
(* modelled.  Probabilities are in tenths (5 stands for 0.5).              *)
(***************************************************************************)
EXTENDS Integers, Sequences, FiniteSets, TLC

VARIABLES
    \* ---- load_data ----
    fs,          \* the data directory on disk
    ld,          \* load_data's frame: pc, images, labels, idx, handle, ...
    \* ---- train_model / get_trained_model / eval_model ----
    cfg,         \* the call's arguments
    tr,          \* the training loop's frame and the model's state
    ev,          \* eval_model's frame
    out,         \* what the last step wrote to the writer / returned
    \* ---- main ----
    mn           \* main's frame

vars == <<fs, ld, cfg, tr, ev, out, mn>>

\* ------------------------------------------------------------------ bounds
MaxFiles == 2
MaxLines == 3
MaxEpochs == 4
MaxTrain == 3
MaxTest == 3
BatchSize == 2
MaxImages == 4

\* ------------------------------------------------------------ exact fractions
Frac(n, d) == <<n, d>>
FracEq(a, b) == a[1] * b[2] = b[1] * a[2]
FracLeq(a, b) == a[1] * b[2] <= b[1] * a[2]
FracAdd(a, b) == <<a[1] * b[2] + b[1] * a[2], a[2] * b[2]>>
FracSub(a, b) == <<a[1] * b[2] - b[1] * a[2], a[2] * b[2]>>
FracMul(a, b) == <<a[1] * b[1], a[2] * b[2]>>
FracDiv(a, b) == <<a[1] * b[2], a[2] * b[1]>>
FracInt(k) == <<k, 1>>

Abs(x) == IF x < 0 THEN 0 - x ELSE x

\* The greatest common divisor of two naturals (0 when both are 0).
Gcd(a, b) ==
    IF a = 0 THEN b
    ELSE IF b = 0 THEN a
    ELSE CHOOSE g \in 1..a : /\ a % g = 0 /\ b % g = 0
                             /\ \A h \in (g + 1)..a : a % h # 0 \/ b % h # 0

\* The fraction in lowest terms with a positive denominator.
Norm(a) ==
    LET g == Gcd(Abs(a[1]), Abs(a[2]))
        sgn == IF a[2] < 0 THEN 0 - 1 ELSE 1
    IN  IF g = 0 THEN a ELSE <<sgn * (a[1] \div g), sgn * (a[2] \div g)>>

\* =====================================================================
\* load_data (face.py 85-113)
\* =====================================================================

\* Characters of a labels.txt line; LF is the line terminator.
LF == "LF"
SP == " "
Digits == {"0", "1"}

\* The line bodies (without the terminator) a labels file is drawn from:
\* a bare label, a label followed by other columns, a line with a leading
\* space, a non-numeric line, a blank line.
LineChoices ==
    { <<"1">>, <<"0", SP, "x">>, <<SP, "1">>, <<"x">>, <<>> }

FileNames == 1..MaxFiles

\* Sequences of distinct file entries [name, readable], at most MaxFiles.
RECURSIVE Listings(_)
Listings(n) ==
    IF n = 0 THEN { <<>> }
    ELSE LET shorter == Listings(n - 1)
         IN  shorter \cup
             { Append(l, [name |-> f, readable |-> r]) :
                 l \in { s \in shorter : Len(s) = n - 1 },
                 f \in FileNames, r \in BOOLEAN }

DistinctNames(l) ==
    \A i, j \in 1..Len(l) : i # j => l[i].name # l[j].name

RECURSIVE LineSeqs(_)
LineSeqs(n) ==
    IF n = 0 THEN { <<>> }
    ELSE LET shorter == LineSeqs(n - 1)
         IN  shorter \cup
             { Append(l, c) : l \in { s \in shorter : Len(s) = n - 1 },
                              c \in LineChoices }

\* file.readline(): the next line with its terminator, "" at end of file.
ReadLine(lines, pos) ==
    IF pos <= Len(lines) THEN Append(lines[pos], LF) ELSE <<>>

\* s.split(" ")[0]: the characters before the first space.
RECURSIVE FirstToken(_)
FirstToken(s) ==
    IF s = <<>> \/ Head(s) = SP THEN <<>>
    ELSE <<Head(s)>> \o FirstToken(Tail(s))

\* str.strip() as int() applies it: leading and trailing whitespace removed.
RECURSIVE StripLeft(_)
StripLeft(s) ==
    IF s # <<>> /\ Head(s) \in {SP, LF} THEN StripLeft(Tail(s)) ELSE s

RECURSIVE StripRight(_)
StripRight(s) ==
    IF s # <<>> /\ s[Len(s)] \in {SP, LF}
    THEN StripRight(SubSeq(s, 1, Len(s) - 1)) ELSE s

DigitValue(c) == IF c = "1" THEN 1 ELSE 0

RECURSIVE DecimalValue(_)
DecimalValue(s) ==
    IF s = <<>> THEN 0
    ELSE 10 * DecimalValue(SubSeq(s, 1, Len(s) - 1)) + DigitValue(s[Len(s)])

\* int(s): [ok, val]; not ok stands for ValueError.
PyInt(s) ==
    LET t == StripRight(StripLeft(s))
        neg == t # <<>> /\ Head(t) = "-"
        d == IF neg THEN Tail(t) ELSE t
    IN  IF d # <<>> /\ \A i \in 1..Len(d) : d[i] \in Digits
        THEN [ok |-> TRUE, val |-> IF neg THEN 0 - DecimalValue(d) ELSE DecimalValue(d)]
        ELSE [ok |-> FALSE, val |-> 0]

\* The with-statement's exit (face.py 97): the handle is closed whether the
\* block ends normally or by an exception.
WithExitLeak(h) == h
WithExit(h) == FALSE

LdIdle ==
    [pc |-> "idle", images |-> <<>>, labels |-> <<>>, idx |-> 1, pos |-> 1,
     handle |-> FALSE, opens |-> 0, err |-> "none"]

LdStart == [LdIdle EXCEPT !.pc = "start"]

FsNone == [hasFiles |-> FALSE, listing |-> <<>>, hasLabels |-> FALSE, lines |-> <<>>]

\* Disks: files/ and labels.txt each either missing or present with content.
FsChoices ==
    { [hasFiles |-> hf, listing |-> l, hasLabels |-> hl, lines |-> t] :
        hf \in BOOLEAN, hl \in BOOLEAN,
        l \in { x \in Listings(MaxFiles) : DistinctNames(x) },
        t \in LineSeqs(MaxLines) }

FsValid(f) ==
    /\ (~f.hasFiles => f.listing = <<>>)
    /\ (~f.hasLabels => f.lines = <<>>)

\* face.py 97: open(labels.txt); FileNotFoundError when it is missing.
LoadOpen ==
    /\ ld.pc = "start"
    /\ IF fs.hasLabels
       THEN ld' = [ld EXCEPT !.pc = "listdir", !.handle = TRUE, !.opens = @ + 1]
       ELSE ld' = [ld EXCEPT !.pc = "raised", !.err = "FileNotFoundError"]
    /\ UNCHANGED <<fs, cfg, tr, ev, out, mn>>

\* face.py 98: os.listdir(data_path); raises when files/ is missing, and the
\* with-block is left by the exception.
LoadListdir ==
    /\ ld.pc = "listdir"
    /\ IF fs.hasFiles
       THEN ld' = [ld EXCEPT !.pc = "loop"]
       ELSE ld' = [ld EXCEPT !.pc = "raised", !.err = "FileNotFoundError",
                             !.handle = WithExit(@)]
    /\ UNCHANGED <<fs, cfg, tr, ev, out, mn>>

\* The index of the labels line read for the image at listing position i,
\* given the file position pos (face.py 109-110: one readline per image).
NextPosStuck(pos) == pos
NextPos(pos) == pos + 1

\* face.py 98-111: one iteration of the loop over the listing.
LoadIter ==
    /\ ld.pc = "loop"
    /\ ld.idx <= Len(fs.listing)
    /\ LET f == fs.listing[ld.idx]
           line == ReadLine(fs.lines, ld.pos)
           n == PyInt(FirstToken(line))
       IN  IF ~f.readable
           THEN \* imread returns None, cvtColor raises
                ld' = [ld EXCEPT !.pc = "raised", !.err = "cv2.error",
                                 !.handle = WithExit(@)]
           ELSE IF ~n.ok
           THEN \* images.append ran, then int() raised
                ld' = [ld EXCEPT !.pc = "raised", !.err = "ValueError",
                                 !.images = Append(@, f.name),
                                 !.pos = NextPos(@),
                                 !.handle = WithExit(@)]
           ELSE ld' = [ld EXCEPT !.images = Append(@, f.name),
                                 !.labels = Append(@, n.val),
                                 !.pos = NextPos(@),
                                 !.idx = @ + 1]
    /\ UNCHANGED <<fs, cfg, tr, ev, out, mn>>

\* face.py 98, 113: the listing is exhausted, the with-block ends, return.
LoadReturn ==
    /\ ld.pc = "loop"
    /\ ld.idx > Len(fs.listing)
    /\ ld' = [ld EXCEPT !.pc = "returned", !.handle = WithExit(@)]
    /\ UNCHANGED <<fs, cfg, tr, ev, out, mn>>

\* =====================================================================
\* train_model (model_utils.py 12-87), get_trained_model (face.py 136-195),
\* eval_model (model_utils.py 90-107, face.py 198-216)
\* =====================================================================

EPOCHS == 300

\* Model outputs in tenths: below, at and above the 0.5 threshold.
ProbChoices == {4, 5, 6}
Targets == {0, 1}
\* criterion(outputs, targets).item(): an opaque non-negative number.
LossChoices == {1, 2}

\* len(dataloader) for n samples in batches of b: the last batch may be short.
NumBatches(n, b) == (n + b - 1) \div b
BatchLen(n, b, i) == IF i < NumBatches(n, b) THEN b ELSE n - (NumBatches(n, b) - 1) * b

\* A batch as the loop sees it: the targets, the model's outputs on the inputs,
\* and the criterion's value.
BatchChoices(len) ==
    { [targets |-> t, outputs |-> o, loss |-> l] :
        t \in [1..len -> Targets], o \in [1..len -> ProbChoices], l \in LossChoices }

\* (outputs > 0.5).float()
PredictedGeq(o) == IF o >= 5 THEN 1 ELSE 0
Predicted(o) == IF o > 5 THEN 1 ELSE 0

\* ((outputs > 0.5).float() == targets).sum().item()
NumCorrect(b) == Cardinality({ i \in DOMAIN b.targets : Predicted(b.outputs[i]) = b.targets[i] })

\* int(epochs * 0.7), the scheduler's total_iters (model_utils.py 31).
TotalItersHalf(n) == (5 * n) \div 10
TotalIters(n) == (7 * n) \div 10

START_FACTOR == Frac(1, 1)
\* LinearLR's end_factor (model_utils.py 30).
END_FACTOR == Frac(1, 10)

\* LinearLR.get_lr() at last_epoch = k > 0, as a multiple of the base rate.
LinearLRStep(lr, k, total) ==
    IF k > total THEN lr
    ELSE LET delta == FracSub(END_FACTOR, START_FACTOR)
             den == FracAdd(FracMul(FracInt(total), START_FACTOR),
                            FracMul(FracInt(k - 1), delta))
         IN  Norm(FracMul(lr, FracAdd(FracInt(1), FracDiv(delta, den))))

\* model_utils.py 77: not nosave and epoch % 3 == 2
CheckpointDueFirst(epoch, nosave) == ~nosave /\ epoch % 3 = 0
CheckpointDue(epoch, nosave) == ~nosave /\ epoch % 3 = 2

\* face.py 173: i == len(train_dataloader) - 1 (batches counted from 1 here)
IsFirstBatch(i, nb) == i = 1
IsLastBatch(i, nb) == i = nb

\* nn.Module.eval(): the module is put in evaluation mode.
ModelEvalKeep(m) == m
ModelEval(m) == "eval"

NoOut == [tag |-> "none"]

CfgNone ==
    [variant |-> "none", epochs |-> 0, nosave |-> FALSE, nTrain |-> 0,
     nTest |-> 0, batchSize |-> 1, data |-> <<>>]

TrIdle ==
    [pc |-> "idle", it |-> 0, epoch |-> 0 - 1, bi |-> 1, params |-> 0,
     mode |-> "train", lr |-> Frac(1, 1), last_epoch |-> 0,
     correct |-> 0, running_loss |-> 0, average_loss |-> Frac(0, 1),
     ckpts |-> <<>>, seen |-> <<>>, evals |-> 0, epochsDone |-> 0,
     err |-> "none"]

EvIdle ==
    [pc |-> "idle", bi |-> 1, correct |-> 0, total |-> 0, val_loss |-> 0,
     ret |-> [loss |-> Frac(0, 1), accuracy |-> Frac(0, 1)], err |-> "none"]

NTrainBatches == NumBatches(cfg.nTrain, cfg.batchSize)
NTestBatches == NumBatches(cfg.nTest, cfg.batchSize)

\* ---------------------------------------------------------------- eval_model

\* model_utils.py 92-95 / face.py 201-204: model.eval(), zero the accumulators.
EvalEnter ==
    /\ ev.pc = "enter"
    /\ tr' = [tr EXCEPT !.mode = ModelEval(@)]
    /\ ev' = [EvIdle EXCEPT !.pc = "loop"]
    /\ out' = NoOut
    /\ UNCHANGED <<fs, ld, cfg, mn>>

\* model_utils.py 97-103 / face.py 206-212: one batch under no_grad.
EvalBatch(b) ==
    /\ ev.pc = "loop"
    /\ ev.bi <= NTestBatches
    /\ ev' = [ev EXCEPT !.val_loss = @ + b.loss,
                         !.total = @ + Len(b.targets),
                         !.correct = @ + NumCorrect(b),
                         !.bi = @ + 1]
    /\ out' = NoOut
    /\ UNCHANGED <<fs, ld, cfg, tr, mn>>

\* The caller's dataloader yields the batch (training runs).
EvalBatchDrawn ==
    /\ cfg.data = <<>>
    /\ ev.pc = "loop" /\ ev.bi <= NTestBatches
    /\ \E b \in BatchChoices(BatchLen(cfg.nTest, cfg.batchSize, ev.bi)) : EvalBatch(b)

\* The batches are the ones fixed in the call's arguments (eval_model alone).
EvalBatchGiven ==
    /\ cfg.data # <<>>
    /\ ev.pc = "loop" /\ ev.bi <= NTestBatches
    /\ EvalBatch(cfg.data[ev.bi])

\* model_utils.py 105 / face.py 214: val_loss / len(test_dataloader)
AverageValLoss(val_loss, nb, total) == Frac(val_loss, nb)

\* model_utils.py 106 / face.py 215: 100 * correct / total
Accuracy(correct, total) == Frac(100 * correct, total)

\* model_utils.py 105-107 / face.py 214-216: the two divisions and the return;
\* either division raises ZeroDivisionError on an empty batch set.
EvalReturn ==
    /\ ev.pc = "loop"
    /\ ev.bi > NTestBatches
    /\ IF NTestBatches = 0 \/ ev.total = 0
       THEN /\ ev' = [ev EXCEPT !.pc = "raised", !.err = "ZeroDivisionError"]
            /\ out' = NoOut
       ELSE LET r == [loss |-> AverageValLoss(ev.val_loss, NTestBatches, ev.total),
                      accuracy |-> Accuracy(ev.correct, ev.total)]
            IN  /\ ev' = [ev EXCEPT !.pc = "returned", !.ret = r]
                /\ out' = [tag |-> "eval_return", loss |-> r.loss, accuracy |-> r.accuracy]
    /\ UNCHANGED <<fs, ld, cfg, tr, mn>>

\* --------------------------------------------------------------- train_model

\* model_utils.py 21-37: the sample batch (StopIteration on an empty test
\* loader), the optimizer, the scheduler (lr = base * start_factor), makedirs.
TrainInit ==
    /\ tr.pc = "init" /\ cfg.variant = "train_model"
    /\ IF cfg.nTest = 0
       THEN tr' = [tr EXCEPT !.pc = "raised", !.err = "StopIteration"]
       ELSE tr' = [tr EXCEPT !.pc = "head", !.lr = START_FACTOR, !.last_epoch = 0]
    /\ out' = NoOut
    /\ UNCHANGED <<fs, ld, cfg, ev, mn>>

\* model_utils.py 41-46 and 87: the for statement; model.train() and the
\* accumulators' reset, or the return when range(epochs) is exhausted.
TrainEpochHead ==
    /\ tr.pc = "head" /\ cfg.variant = "train_model"
    /\ IF tr.it < cfg.epochs
       THEN tr' = [tr EXCEPT !.pc = "batches", !.epoch = tr.it, !.it = @ + 1,
                             !.mode = "train", !.correct = 0,
                             !.running_loss = 0, !.average_loss = Frac(0, 1),
                             !.bi = 1, !.seen = <<>>, !.evals = 0]
       ELSE tr' = [tr EXCEPT !.pc = "done"]
    /\ out' = NoOut
    /\ UNCHANGED <<fs, ld, cfg, ev, mn>>

\* model_utils.py 47-57: forward, loss, backward, optimizer.step(), accumulate.
TrainBatch ==
    /\ tr.pc = "batches" /\ cfg.variant = "train_model"
    /\ tr.bi <= NTrainBatches
    /\ \E b \in BatchChoices(BatchLen(cfg.nTrain, cfg.batchSize, tr.bi)) :
         tr' = [tr EXCEPT !.params = @ + 1,
                          !.running_loss = @ + b.loss,
                          !.correct = @ + NumCorrect(b),
                          !.seen = Append(@, tr.bi),
                          !.bi = @ + 1]
    /\ out' = NoOut
    /\ UNCHANGED <<fs, ld, cfg, ev, mn>>

\* model_utils.py 59-62: the average (ZeroDivisionError without batches) and
\* the call of eval_model.
TrainCallEval ==
    /\ tr.pc = "batches" /\ cfg.variant = "train_model"
    /\ tr.bi > NTrainBatches
    /\ IF NTrainBatches = 0
       THEN /\ tr' = [tr EXCEPT !.pc = "raised", !.err = "ZeroDivisionError"]
            /\ ev' = ev
       ELSE /\ tr' = [tr EXCEPT !.pc = "in_eval", !.evals = @ + 1,
                                !.average_loss = Frac(tr.running_loss, NTrainBatches)]
            /\ ev' = [EvIdle EXCEPT !.pc = "enter"]
    /\ out' = NoOut
    /\ UNCHANGED <<fs, ld, cfg, mn>>

\* model_utils.py 68-69: the value written under "accuracy/Train".
TrainAccuracyReported(correct, nb) == Frac(correct, nb)

\* model_utils.py 61-75: eval_model has returned; the scalars and the figure
\* go to the writer, running_loss is cleared.
TrainReport ==
    /\ tr.pc = "in_eval" /\ cfg.variant = "train_model"
    /\ ev.pc = "returned"
    /\ out' = [tag |-> "report", step |-> tr.epoch + 1,
               trainLoss |-> tr.average_loss, evalLoss |-> ev.ret.loss,
               trainAcc |-> TrainAccuracyReported(tr.correct, NTrainBatches),
               evalAcc |-> ev.ret.accuracy]
    /\ tr' = [tr EXCEPT !.pc = "ckpt", !.running_loss = 0]
    /\ ev' = EvIdle
    /\ UNCHANGED <<fs, ld, cfg, mn>>

\* model_utils.py 77-79: torch.save to save_dir/{epoch}.pt when due.
TrainCheckpoint ==
    /\ tr.pc = "ckpt" /\ cfg.variant = "train_model"
    /\ IF CheckpointDue(tr.epoch, cfg.nosave)
       THEN /\ tr' = [tr EXCEPT !.pc = "sched", !.ckpts = Append(@, tr.epoch)]
            /\ out' = [tag |-> "checkpoint", epoch |-> tr.epoch, params |-> tr.params]
       ELSE /\ tr' = [tr EXCEPT !.pc = "sched"]
            /\ out' = NoOut
    /\ UNCHANGED <<fs, ld, cfg, ev, mn>>

\* model_utils.py 81-85: scheduler.step() and the progress bar.
TrainSchedStep ==
    /\ tr.pc = "sched" /\ cfg.variant = "train_model"
    /\ tr' = [tr EXCEPT !.pc = "head", !.last_epoch = @ + 1,
                        !.lr = LinearLRStep(@, tr.last_epoch + 1, TotalIters(cfg.epochs)),
                        !.epochsDone = @ + 1]
    /\ out' = [tag |-> "postfix", epoch |-> tr.epoch,
               loss |-> tr.average_loss, lr |-> tr'.lr]
    /\ UNCHANGED <<fs, ld, cfg, ev, mn>>

\* --------------------------------------------------------- get_trained_model

\* face.py 149-156: a fresh model, the sample batch, the optimizer.
FaceInit ==
    /\ tr.pc = "init" /\ cfg.variant = "get_trained_model"
    /\ IF cfg.nTest = 0
       THEN tr' = [tr EXCEPT !.pc = "raised", !.err = "StopIteration"]
       ELSE tr' = [tr EXCEPT !.pc = "head", !.mode = "train", !.params = 0]
    /\ out' = NoOut
    /\ UNCHANGED <<fs, ld, cfg, ev, mn>>

\* face.py 160-164 and 195.
FaceEpochHead ==
    /\ tr.pc = "head" /\ cfg.variant = "get_trained_model"
    /\ IF tr.it < cfg.epochs
       THEN tr' = [tr EXCEPT !.pc = "batches", !.epoch = tr.it, !.it = @ + 1,
                             !.mode = "train", !.running_loss = 0,
                             !.average_loss = Frac(0, 1),
                             !.bi = 1, !.seen = <<>>, !.evals = 0]
       ELSE tr' = [tr EXCEPT !.pc = "done"]
    /\ out' = NoOut
    /\ UNCHANGED <<fs, ld, cfg, ev, mn>>

\* face.py 165-176: a batch; on the last one the average and the call of
\* eval_model follow the optimizer step.
FaceBatch ==
    /\ tr.pc = "batches" /\ cfg.variant = "get_trained_model"
    /\ tr.bi <= NTrainBatches
    /\ \E b \in BatchChoices(BatchLen(cfg.nTrain, cfg.batchSize, tr.bi)) :
         LET rl == tr.running_loss + b.loss
         IN  IF IsLastBatch(tr.bi, NTrainBatches)
             THEN /\ tr' = [tr EXCEPT !.pc = "in_eval", !.params = @ + 1,
                                      !.running_loss = rl,
                                      !.average_loss = Frac(rl, NTrainBatches),
                                      !.seen = Append(@, tr.bi),
                                      !.evals = @ + 1]
                  /\ ev' = [EvIdle EXCEPT !.pc = "enter"]
             ELSE /\ tr' = [tr EXCEPT !.params = @ + 1, !.running_loss = rl,
                                      !.seen = Append(@, tr.bi), !.bi = @ + 1]
                  /\ ev' = ev
    /\ out' = NoOut
    /\ UNCHANGED <<fs, ld, cfg, mn>>

\* face.py 175-187: eval_model has returned; write the scalars and the figure,
\* clear running_loss, go on with the batch loop.
FaceReport ==
    /\ tr.pc = "in_eval" /\ cfg.variant = "get_trained_model"
    /\ ev.pc = "returned"
    /\ out' = [tag |-> "report", step |-> tr.epoch + 1,
               trainLoss |-> tr.average_loss, evalLoss |-> ev.ret.loss,
               evalAcc |-> ev.ret.accuracy]
    /\ tr' = [tr EXCEPT !.pc = "batches", !.running_loss = 0, !.bi = @ + 1]
    /\ ev' = EvIdle
    /\ UNCHANGED <<fs, ld, cfg, mn>>

\* face.py 189-193: the batch loop is exhausted; the progress bar.
FaceEpochEnd ==
    /\ tr.pc = "batches" /\ cfg.variant = "get_trained_model"
    /\ tr.bi > NTrainBatches
    /\ tr' = [tr EXCEPT !.pc = "head", !.epochsDone = @ + 1]
    /\ out' = [tag |-> "postfix", epoch |-> tr.epoch, loss |-> tr.average_loss]
    /\ UNCHANGED <<fs, ld, cfg, ev, mn>>

\* -------------------------------------------------------------- specifications

MnIdle == [pc |-> "idle"]

TrainArgs ==
    { [variant |-> v, epochs |-> n, nosave |-> ns, nTrain |-> a, nTest |-> b,
       batchSize |-> BatchSize, data |-> <<>>] :
        v \in {"train_model", "get_trained_model"}, n \in 0..MaxEpochs,
        ns \in BOOLEAN, a \in 0..MaxTrain, b \in 0..MaxTest }

\* get_trained_model takes neither nosave nor a model: it reads the module's
\* epoch budget; train_model is handed a model in either mode.
InitTrain ==
    /\ fs = FsNone /\ ld = LdIdle /\ mn = MnIdle
    /\ cfg \in { c \in TrainArgs : c.variant = "get_trained_model" => ~c.nosave }
    /\ \E m \in {"train", "eval"} :
         /\ (cfg.variant = "get_trained_model" => m = "train")
         /\ tr = [TrIdle EXCEPT !.pc = "init", !.mode = m]
    /\ ev = EvIdle
    /\ out = NoOut

NextTrain ==
    \/ TrainInit \/ TrainEpochHead \/ TrainBatch \/ TrainCallEval
    \/ TrainReport \/ TrainCheckpoint \/ TrainSchedStep
    \/ FaceInit \/ FaceEpochHead \/ FaceBatch \/ FaceReport \/ FaceEpochEnd
    \/ EvalEnter \/ EvalBatchDrawn \/ EvalReturn

SpecTrain == InitTrain /\ [][NextTrain]_vars

\* eval_model alone: every way to fill n samples' batches.
RECURSIVE DataChoices(_, _)
DataChoices(n, i) ==
    IF i > NumBatches(n, BatchSize) THEN { <<>> }
    ELSE { <<b>> \o rest : b \in BatchChoices(BatchLen(n, BatchSize, i)),
                           rest \in DataChoices(n, i + 1) }

InitEval ==
    /\ fs = FsNone /\ ld = LdIdle /\ mn = MnIdle
    /\ \E n \in 0..MaxTest : \E d \in DataChoices(n, 1) :
         cfg = [CfgNone EXCEPT !.variant = "eval_model", !.nTest = n,
                               !.batchSize = BatchSize, !.data = d]
    /\ \E m \in {"train", "eval"} : tr = [TrIdle EXCEPT !.mode = m]
    /\ ev = [EvIdle EXCEPT !.pc = "enter"]
    /\ out = NoOut

NextEval == EvalEnter \/ EvalBatchGiven \/ EvalReturn

SpecEval == InitEval /\ [][NextEval]_vars

InitLoad ==
    /\ fs \in { f \in FsChoices : FsValid(f) }
    /\ ld = LdStart
    /\ cfg = CfgNone /\ tr = TrIdle /\ ev = EvIdle /\ out = NoOut /\ mn = MnIdle

NextLoad == LoadOpen \/ LoadListdir \/ LoadIter \/ LoadReturn

SpecLoad == InitLoad /\ [][NextLoad]_vars

\* =====================================================================
\* main (face.py 25-82)
\* =====================================================================

TEST_SIZE_TENTHS == 3
BATCH_SIZE == 64

\* train_test_split's sizes: n_test = ceil(test_size * n), n_train = n - n_test.
NTestOf(n) == (TEST_SIZE_TENTHS * n + 9) \div 10
NTrainOf(n) == n - NTestOf(n)

\* face.py 79: len(sys.argv) == 3
SaveRequestedAlways(argc) == argc \in {2, 3}
SaveRequested(argc) == argc = 3

MnStart(argc) ==
    [pc |-> "args", argc |-> argc, nImages |-> 0, nTrain |-> 0, nTest |-> 0,
     nTrainBatches |-> 0, epoch |-> 0, stages |-> <<>>, saved |-> FALSE,
     err |-> "none"]

MainFail(e) == mn' = [mn EXCEPT !.pc = "failed", !.err = e]

\* face.py 28-29: the argument count, sys.exit on a wrong one.
MainArgs ==
    /\ mn.pc = "args"
    /\ IF mn.argc \notin {2, 3}
       THEN mn' = [mn EXCEPT !.pc = "exit", !.err = "SystemExit"]
       ELSE mn' = [mn EXCEPT !.pc = "load"]
    /\ UNCHANGED <<fs, ld, cfg, tr, ev, out>>

\* face.py 32: load_data returns the images and labels, or raises.
MainLoad ==
    /\ mn.pc = "load"
    /\ \/ \E n \in 0..MaxImages :
            mn' = [mn EXCEPT !.pc = "split", !.nImages = n,
                             !.stages = Append(@, "load")]
       \/ \E e \in {"FileNotFoundError", "cv2.error", "ValueError"} : MainFail(e)
    /\ UNCHANGED <<fs, ld, cfg, tr, ev, out>>

\* face.py 36-37: train_test_split; ValueError when the train set would be empty.
MainSplit ==
    /\ mn.pc = "split"
    /\ IF mn.nImages = 0 \/ NTrainOf(mn.nImages) = 0
       THEN MainFail("ValueError")
       ELSE mn' = [mn EXCEPT !.pc = "batch", !.nTrain = NTrainOf(mn.nImages),
                             !.nTest = NTestOf(mn.nImages),
                             !.stages = Append(@, "split")]
    /\ UNCHANGED <<fs, ld, cfg, tr, ev, out>>

\* face.py 40-70: tensors, the two DataLoaders, the writer, one sample batch.
MainBatch ==
    /\ mn.pc = "batch"
    /\ mn' = [mn EXCEPT !.pc = "train", !.stages = Append(@, "batch"),
                         !.nTrainBatches = NumBatches(mn.nTrain, BATCH_SIZE)]
    /\ UNCHANGED <<fs, ld, cfg, tr, ev, out>>

\* face.py 160-193 (called at 73): one epoch of get_trained_model.
MainTrainEpoch ==
    /\ mn.pc = "train"
    /\ mn.epoch < EPOCHS
    /\ mn' = [mn EXCEPT !.epoch = @ + 1]
    /\ UNCHANGED <<fs, ld, cfg, tr, ev, out>>

\* face.py 165-171: a forward or backward pass raises (device out of memory).
MainTrainRaise ==
    /\ mn.pc = "train"
    /\ mn.epoch < EPOCHS
    /\ MainFail("RuntimeError")
    /\ UNCHANGED <<fs, ld, cfg, tr, ev, out>>

\* face.py 195, 73, 76: the trained model is returned, the graph is written.
MainTrainReturn ==
    /\ mn.pc = "train"
    /\ mn.epoch = EPOCHS
    /\ mn' = [mn EXCEPT !.pc = "save", !.stages = Append(@, "train")]
    /\ UNCHANGED <<fs, ld, cfg, tr, ev, out>>

\* face.py 79-82: the final model file, when a save path was given.
MainSave ==
    /\ mn.pc = "save"
    /\ mn' = [mn EXCEPT !.pc = "done", !.saved = SaveRequested(mn.argc)]
    /\ UNCHANGED <<fs, ld, cfg, tr, ev, out>>

InitMain ==
    /\ fs = FsNone /\ ld = LdIdle
    /\ cfg = CfgNone /\ tr = TrIdle /\ ev = EvIdle /\ out = NoOut
    /\ \E argc \in 1..4 : mn = MnStart(argc)

NextMain ==
    \/ MainArgs \/ MainLoad \/ MainSplit \/ MainBatch
    \/ MainTrainEpoch \/ MainTrainRaise \/ MainTrainReturn \/ MainSave

SpecMain == InitMain /\ [][NextMain]_vars

\* =====================================================================
\* Properties
\* =====================================================================

\* ------------------------------------------------------------------ C1
\* The epochs whose checkpoint statement (model_utils.py 77) has been passed.
EpochsPastCheckpoint ==
    CASE tr.pc = "sched" -> tr.epoch + 1
      [] tr.pc \in {"batches", "in_eval", "ckpt"} -> tr.epoch
      [] tr.pc \in {"head", "done"} -> tr.it
      [] OTHER -> IF tr.epoch < 0 THEN 0 ELSE tr.epoch

RECURSIVE DueEpochs(_)
DueEpochs(k) ==
    IF k = 0 THEN <<>>
    ELSE IF ~cfg.nosave /\ (k - 1) % 3 = 2
         THEN Append(DueEpochs(k - 1), k - 1)
         ELSE DueEpochs(k - 1)

\* C1: in train_model the checkpoint files written so far are exactly one
\* file per epoch e already past its checkpoint statement with nosave False
\* and e % 3 = 2, in epoch order; none with nosave True, none twice.
C1_CheckpointCadence ==
    cfg.variant = "train_model" => tr.ckpts = DueEpochs(EpochsPastCheckpoint)

C1_Witness ==
    /\ cfg.variant = "train_model" /\ tr.pc = "done"
    /\ cfg.epochs = 4 /\ tr.ckpts = <<2>>

\* ------------------------------------------------------------------ C2
Training == cfg.variant \in {"train_model", "get_trained_model"}
AllBatchesSeen == Len(tr.seen) = NTrainBatches

\* A batch is waiting in the training loop or in eval_model, or the scheduler
\* step is next: these steps have no further condition.
StepPending ==
    \/ tr.pc = "batches" /\ tr.bi <= NTrainBatches
    \/ ev.pc = "loop" /\ ev.bi <= NTestBatches
    \/ tr.pc = "sched"

\* No step is possible.
Stopped == ~StepPending /\ ~ENABLED NextTrain

\* The state part of the loop's order: no exception, batches in order and
\* once each, the evaluation once and after the last batch, the epoch count at
\* the return, and no stop short of the return.
TrainOrderState ==
    /\ tr.pc # "raised" /\ ev.pc # "raised"
    /\ (tr.pc = "done" => tr.epochsDone = cfg.epochs /\ tr.it = cfg.epochs)
    /\ tr.epochsDone <= cfg.epochs
    /\ tr.seen = [i \in 1..Len(tr.seen) |-> i]
    /\ Len(tr.seen) <= NTrainBatches
    /\ tr.evals <= 1
    /\ (tr.pc \in {"in_eval", "ckpt", "sched"} => AllBatchesSeen /\ tr.evals = 1)
    /\ (tr.pc = "batches" /\ ~AllBatchesSeen => tr.evals = 0)
    /\ (ev.pc # "idle" => tr.pc = "in_eval")
    /\ (Stopped => tr.pc = "done")

\* The step part: an epoch ends only after all its batches and its one
\* evaluation; a checkpoint is written only after the evaluation has returned
\* and changes no parameter; parameters are updated only by a training batch
\* that precedes the epoch's evaluation.
TrainOrderStep ==
    /\ (tr'.epochsDone # tr.epochsDone =>
            /\ tr'.epochsDone = tr.epochsDone + 1
            /\ AllBatchesSeen /\ tr.evals = 1 /\ ev.pc = "idle")
    /\ (tr'.ckpts # tr.ckpts =>
            /\ AllBatchesSeen /\ tr.evals = 1 /\ ev.pc = "idle"
            /\ tr'.params = tr.params)
    /\ (tr'.params # tr.params =>
            /\ tr.pc = "batches" /\ tr.evals = 0
            /\ tr'.seen = Append(tr.seen, Len(tr.seen) + 1))

EvalRunning == ev.pc \in {"enter", "loop"}

OnlyOptimizerUpdates ==
    tr'.params # tr.params => tr.pc = "batches" /\ tr.bi <= NTrainBatches /\ ev.pc = "idle"

\* C3 as stated: no step of eval_model changes the parameters or the mode.
C3_Original ==
    [][ /\ (EvalRunning => tr'.params = tr.params /\ tr'.mode = tr.mode)
        /\ OnlyOptimizerUpdates ]_vars

\* C3 (amended): eval_model leaves the parameters as they were and leaves the
\* model in evaluation mode; parameters change only in a training batch's
\* optimizer step.
C3_EvalFrame ==
    [][ /\ (EvalRunning => tr'.params = tr.params /\ tr'.mode = "eval")
        /\ OnlyOptimizerUpdates ]_vars

C3_Witness ==
    /\ cfg.variant = "train_model" /\ ev.pc = "returned"
    /\ tr.mode = "eval" /\ tr.params = 4

\* ------------------------------------------------------------------ C6
InEpoch == tr.pc \in {"batches", "in_eval", "ckpt", "sched"}
Min(a, b) == IF a < b THEN a ELSE b

\* base * (1 - 0.9 * min(e, T) / T), as a multiple of base
ScheduleAt(e, T) == Frac(10 * T - 9 * Min(e, T), 10 * T)

RateAsClaimed ==
    LET T == (7 * cfg.epochs) \div 10
    IN  /\ tr.last_epoch = tr.epoch
        /\ FracEq(tr.lr, ScheduleAt(tr.epoch, T))
        /\ (tr.epoch = 0 => FracEq(tr.lr, Frac(1, 1)))
        /\ (tr.epoch >= T => FracEq(tr.lr, Frac(1, 10)))

\* C6 as stated: for every N >= 1 the rate of epoch e follows the schedule
\* and is 0.1 x base from epoch T = int(0.7 N) on.
C6_Original ==
    (cfg.variant = "train_model" /\ cfg.epochs >= 1 /\ InEpoch) => RateAsClaimed

\* C6 (amended): for every N >= 2 the rate of epoch e is
\* base * (1 - 0.9 * min(e, T) / T) with T = int(0.7 N) >= 1: 1.0 x base in
\* epoch 0, never increasing, 0.1 x base from epoch T on; for N = 1 (T = 0) it
\* stays 1.0 x base; it changes only in the scheduler step that ends an epoch.
C6_LinearDecay ==
    /\ []((cfg.variant = "train_model" /\ InEpoch) =>
            IF cfg.epochs >= 2 THEN RateAsClaimed
            ELSE tr.last_epoch = tr.epoch /\ tr.lr = Frac(1, 1))
    /\ [][cfg.variant = "train_model" =>
            /\ FracLeq(tr'.lr, tr.lr)
            /\ (tr'.lr # tr.lr \/ tr'.last_epoch # tr.last_epoch => tr.pc = "sched")]_vars

C6_Witness ==
    /\ cfg.variant = "train_model" /\ cfg.epochs = 4
    /\ tr.pc = "batches" /\ tr.epoch = 3 /\ tr.lr = Frac(1, 10)

\* ----------------------------------------------------------------- C10
\* C10: the value train_model reports as training accuracy is the percentage
\* of the epoch's training samples predicted right, within [0, 100].
C10_TrainAccuracyIsPercentage ==
    (cfg.variant = "train_model" /\ out.tag = "report") =>
        /\ FracEq(out.trainAcc, Frac(100 * tr.correct, cfg.nTrain))
        /\ FracLeq(Frac(0, 1), out.trainAcc)
        /\ FracLeq(out.trainAcc, Frac(100, 1))

\* ------------------------------------------------------------------ C9
SampleIds == { <<i, j>> \in (1..Len(cfg.data)) \X (1..BatchSize) : j <= Len(cfg.data[i].targets) }
Hit(s) ==
    LET o == cfg.data[s[1]].outputs[s[2]]
        t == cfg.data[s[1]].targets[s[2]]
    IN  (IF o > 5 THEN 1 ELSE 0) = t

RECURSIVE SumLoss(_)
SumLoss(d) == IF d = <<>> THEN 0 ELSE Head(d).loss + SumLoss(Tail(d))

\* C9: for a non-empty batch set eval_model returns accuracy = 100 * (samples
\* whose output thresholded at 0.5, 0.5 itself being class 0, equals the
\* label) / (all samples), within [0, 100], and average loss = (sum of the
\* batch losses) / (number of batches).
C9_EvalResult ==
    (cfg.variant = "eval_model" /\ ev.pc = "returned") =>
        /\ FracEq(ev.ret.accuracy,
                  Frac(100 * Cardinality({ s \in SampleIds : Hit(s) }), Cardinality(SampleIds)))
        /\ FracLeq(Frac(0, 1), ev.ret.accuracy)
        /\ FracLeq(ev.ret.accuracy, Frac(100, 1))
        /\ FracEq(ev.ret.loss, Frac(SumLoss(cfg.data), Len(cfg.data)))

\* A full batch and a short one, an output of exactly 0.5 on a label 0, all right.
C9_Witness ==
    /\ cfg.variant = "eval_model" /\ ev.pc = "returned"
    /\ Len(cfg.data) = 2
    /\ Len(cfg.data[2].targets) < Len(cfg.data[1].targets)
    /\ cfg.data[1].outputs[1] = 5 /\ cfg.data[1].targets[1] = 0
    /\ cfg.data[1].loss # cfg.data[2].loss
    /\ FracEq(ev.ret.accuracy, Frac(100, 1))

\* ------------------------------------------------------------------ C4
\* The integer a labels line stands for, line by line.
LineIsLabel(line) == line \in { <<"1">>, <<"0", SP, "x">> }
LabelOf(line) == IF line = <<"1">> THEN 1 ELSE 0

\* C4: when load_data returns, images and labels are as long as the listing,
\* images[i] is the i-th listed file and labels[i] the integer leading the
\* i-th line of labels.txt.
C4_LoadAligned ==
    ld.pc = "returned" =>
        /\ Len(ld.images) = Len(fs.listing)
        /\ Len(ld.labels) = Len(fs.listing)
        /\ \A i \in 1..Len(fs.listing) :
             /\ ld.images[i] = fs.listing[i].name
             /\ i <= Len(fs.lines)
             /\ LineIsLabel(fs.lines[i])
             /\ ld.labels[i] = LabelOf(fs.lines[i])

C4_Witness ==
    /\ ld.pc = "returned" /\ Len(fs.listing) = 2
    /\ fs.listing[1].name = 2
    /\ ld.labels = <<1, 0>>

\* ------------------------------------------------------------------ C5
\* C5: load_data never returns when labels.txt has fewer or more lines than
\* there are image files.
C5_MismatchRaises ==
    ld.pc = "returned" => Len(fs.lines) = Len(fs.listing)

\* ------------------------------------------------------------------ C7
\* C7: once load_data has returned or raised, the labels file handle is closed.
C7_HandleClosed ==
    ld.pc \in {"returned", "raised"} => ~ld.handle

C7_Witness ==
    /\ ld.pc = "raised" /\ ld.err = "ValueError"
    /\ ld.opens = 1 /\ ~ld.handle /\ Len(ld.images) = 2

\* ------------------------------------------------------------------ C8
StageOrder == <<"load", "split", "batch", "train">>

\* C8: main's stages complete in the order load, split, batch, train; the
\* final model file is written only with a save path given, after the last
\* epoch, with every stage completed, and always then; never after a failure
\* or a usage exit.
C8_StagesInOrder ==
    /\ Len(mn.stages) <= Len(StageOrder)
    /\ mn.stages = SubSeq(StageOrder, 1, Len(mn.stages))
    /\ (mn.saved => mn.argc = 3 /\ mn.stages = StageOrder /\ mn.epoch = EPOCHS
                    /\ mn.pc = "done")
    /\ (mn.pc = "done" => (mn.saved <=> mn.argc = 3) /\ mn.stages = StageOrder)
    /\ (mn.pc \in {"failed", "exit"} => ~mn.saved)
    /\ (mn.pc = "exit" => mn.stages = <<>>)

C8_Witness ==
    /\ mn.pc = "done" /\ mn.saved /\ mn.argc = 3 /\ mn.nImages = MaxImages

====
